---- MODULE Spec2Model ----
(***************************************************************************)
(* The QC stage of the oecophylla workflow (oecophylla/qc/qc.py): the      *)
(* rules qc_atropos, qc_filter, qc_per_sample_fastqc,                      *)
(* qc_per_sample_multiqc and the target rule qc.                           *)
(*                                                                         *)
(* State: the file system (final paths, logs, scratch files), the scratch  *)
(* directories that exist, and for every job (rule instance) the command   *)
(* of its run block that is in progress, its temp_dir and the command      *)
(* whose non-zero exit raised.  A job is started once the jobs that        *)
(* produce its declared inputs are done.  Each shell command of a run      *)
(* block is one step: its outputs are opened (present, incomplete) when it *)
(* starts and complete when it exits 0.                                    *)
(***************************************************************************)
EXTENDS Integers, Sequences, FiniteSets, TLC

VARIABLES fs, dirs, pc, tmp, err, reran, snap

vars == <<fs, dirs, pc, tmp, err, reran, snap>>

\* ------------------------------------------------------------------ bounds
NumSamples == 2
MaxPairs == 3

\* ----------------------------------------------------------- configuration
samples == 1 .. NumSamples

\* config['samples'][sample]['filter_db']: None for the odd samples.
filter_db(s) == IF s % 2 = 1 THEN "None" ELSE "db"

\* ------------------------------------------------------------------- paths
\* A path: abs = it starts at the root; base = the directory a relative path
\* has been resolved against ("" = the working directory).
Path(dir, s, file) == [abs |-> FALSE, base |-> "", dir |-> dir, s |-> s, file |-> file]

NoPath == Path("", 0, "")

\* os.path.abspath: the path, resolved against the working directory.
abspath(p) == [p EXCEPT !.abs = TRUE]

\* The file a symbolic link at `link` with target text `target` names: a
\* relative target is resolved against the directory that holds the link.
LinkDest(link, target) ==
    IF target.abs THEN target
    ELSE [target EXCEPT !.abs = TRUE, !.base = link.dir]

\* os.path.basename inside temp_dir (temp_dir is absolute).
InTemp(d, file) == abspath(Path("tmp", d, file))

raw(s, m) == Path("raw", s, IF m = 1 THEN "R1.fastq.gz" ELSE "R2.fastq.gz")

\* Mutant: the output path does not hold the {sample} wildcard.
qc_atropos_output_shared(s, m) ==
    Path("trimmed", 1, IF m = 1 THEN "trimmed.R1.fastq.gz" ELSE "trimmed.R2.fastq.gz")

qc_atropos_output(s, m) ==
    Path("trimmed", s, IF m = 1 THEN "trimmed.R1.fastq.gz" ELSE "trimmed.R2.fastq.gz")

qc_atropos_log(s) == Path("logs", s, "qc_atropos.log")

\* Mutant: the filter takes the raw files as its input.
qc_filter_input_raw(s, m) == raw(s, m)

qc_filter_input(s, m) ==
    Path("trimmed", s, IF m = 1 THEN "trimmed.R1.fastq.gz" ELSE "trimmed.R2.fastq.gz")

qc_filter_output(s, m) ==
    Path("filtered", s,
         IF m = 1 THEN "R1.trimmed.filtered.fastq.gz" ELSE "R2.trimmed.filtered.fastq.gz")

qc_filter_log_bowtie(s) == Path("logs", s, "qc_filter.bowtie.log")
qc_filter_log_other(s) == Path("logs", s, "qc_filter.other.log")

qc_per_sample_fastqc_input(s, m) ==
    Path("filtered", s,
         IF m = 1 THEN "R1.trimmed.filtered.fastq.gz" ELSE "R2.trimmed.filtered.fastq.gz")

\* What fastqc writes into --outdir: an html and a zip for each input file,
\* named after the input with .fastq.gz replaced by _fastqc.
FastqcFile(s, m, ext) ==
    Path("fastqc_per_sample", s,
         IF m = 1
         THEN (IF ext = "html" THEN "R1.trimmed.filtered_fastqc.html"
                               ELSE "R1.trimmed.filtered_fastqc.zip")
         ELSE (IF ext = "html" THEN "R2.trimmed.filtered_fastqc.html"
                               ELSE "R2.trimmed.filtered_fastqc.zip"))

qc_per_sample_fastqc_output(s) == {FastqcFile(s, 1, "html"), FastqcFile(s, 2, "zip")}

qc_per_sample_fastqc_log(s) == Path("logs", s, "qc_per_sample_fastqc.log")

\* Mutant: the input names one sample's archive, not expand(..., sample=samples).
multiqc_input_one_sample == {FastqcFile(1, 2, "zip")}

qc_per_sample_multiqc_input == {FastqcFile(s, 2, "zip") : s \in samples}

qc_per_sample_multiqc_output == Path("multiQC_per_sample", 0, "multiqc_report.html")

qc_per_sample_multiqc_log == Path("logs", 0, "qc_per_sample_multiqc.log")

\* Mutant: rule qc does not name the aggregate report.
qc_input_without_report ==
    {qc_atropos_output(s, m) : s \in samples, m \in {1, 2}}
    \cup {qc_filter_output(s, m) : s \in samples, m \in {1, 2}}

qc_input ==
    {qc_atropos_output(s, m) : s \in samples, m \in {1, 2}}
    \cup {qc_filter_output(s, m) : s \in samples, m \in {1, 2}}
    \cup {qc_per_sample_multiqc_output}

\* ---------------------------------------------------------------- contents
Absent == [kind |-> "absent", fmt |-> "", reads |-> <<>>, complete |-> FALSE, target |-> NoPath]

\* A file that has been opened for writing and is not yet fully written.
Partial == [kind |-> "file", fmt |-> "", reads |-> <<>>, complete |-> FALSE, target |-> NoPath]

File(fmt, reads) ==
    [kind |-> "file", fmt |-> fmt, reads |-> reads, complete |-> TRUE, target |-> NoPath]

Link(target) ==
    [kind |-> "link", fmt |-> "", reads |-> <<>>, complete |-> TRUE, target |-> target]

ScratchNames == 1 .. NumSamples

TempFiles ==
    {"trimmed.R1.fastq.gz", "trimmed.R2.fastq.gz",
     "R1.trimmed.filtered.fastq", "R2.trimmed.filtered.fastq",
     "R1.trimmed.filtered.fastq.gz", "R2.trimmed.filtered.fastq.gz"}

Paths ==
    {abspath(p) : p \in
        {raw(s, m) : s \in samples, m \in {1, 2}}
        \cup {qc_atropos_output(s, m) : s \in samples, m \in {1, 2}}
        \cup {qc_filter_output(s, m) : s \in samples, m \in {1, 2}}
        \cup {FastqcFile(s, m, e) : s \in samples, m \in {1, 2}, e \in {"html", "zip"}}
        \cup {qc_atropos_log(s) : s \in samples}
        \cup {qc_filter_log_bowtie(s) : s \in samples}
        \cup {qc_filter_log_other(s) : s \in samples}
        \cup {qc_per_sample_fastqc_log(s) : s \in samples}
        \cup {qc_per_sample_multiqc_output, qc_per_sample_multiqc_log}}
    \cup {InTemp(d, n) : d \in ScratchNames, n \in TempFiles}

\* lstat: what is at the path itself.  A process resolves a relative path
\* against its working directory.
Lookup(f, p) == IF abspath(p) \in Paths THEN f[abspath(p)] ELSE Absent

\* The path a read or write reaches: through a symbolic link, its target.
Follow(f, p) ==
    IF Lookup(f, p).kind = "link" THEN LinkDest(abspath(p), Lookup(f, p).target)
    ELSE abspath(p)

\* stat / open for reading: the file reached, through a symbolic link.
Stat(f, p) ==
    IF Follow(f, p) \in Paths THEN f[Follow(f, p)] ELSE Absent

Exists(f, p) == Stat(f, p).kind # "absent"

\* The file system with the files of w (a function from paths) replaced.
Put(f, w) == [p \in Paths |-> IF p \in DOMAIN w THEN w[p] ELSE f[p]]

\* --------------------------------------------------------------------- jobs
Jobs ==
    ({"qc_atropos", "qc_filter", "qc_per_sample_fastqc"} \X samples)
    \cup {<<"qc_per_sample_multiqc", 0>>, <<"qc", 0>>}

Input(j) ==
    CASE j[1] = "qc_atropos" -> {raw(j[2], m) : m \in {1, 2}}
      [] j[1] = "qc_filter" -> {qc_filter_input(j[2], m) : m \in {1, 2}}
      [] j[1] = "qc_per_sample_fastqc" -> {qc_per_sample_fastqc_input(j[2], m) : m \in {1, 2}}
      [] j[1] = "qc_per_sample_multiqc" -> qc_per_sample_multiqc_input
      [] OTHER -> qc_input

Output(j) ==
    CASE j[1] = "qc_atropos" -> {qc_atropos_output(j[2], m) : m \in {1, 2}}
      [] j[1] = "qc_filter" -> {qc_filter_output(j[2], m) : m \in {1, 2}}
      [] j[1] = "qc_per_sample_fastqc" -> qc_per_sample_fastqc_output(j[2])
      [] j[1] = "qc_per_sample_multiqc" -> {qc_per_sample_multiqc_output}
      [] OTHER -> {}

\* The shell commands of the job's run block, in order.
Commands(j) ==
    CASE j[1] = "qc_atropos" -> <<"atropos", "scp_forward", "scp_reverse">>
      [] j[1] = "qc_filter" ->
            IF filter_db(j[2]) = "None"
            THEN <<"ln_forward", "ln_reverse", "echo">>
            ELSE <<"bowtie2_pipe", "pigz_forward", "pigz_reverse", "scp_forward", "scp_reverse">>
      [] j[1] = "qc_per_sample_fastqc" -> <<"fastqc">>
      [] j[1] = "qc_per_sample_multiqc" -> <<"multiqc">>
      [] OTHER -> <<>>

\* The run block is inside `with tempfile.TemporaryDirectory(...) as temp_dir`.
UsesTemp(j) ==
    \/ j[1] = "qc_atropos"
    \/ j[1] = "qc_filter" /\ filter_db(j[2]) # "None"

Running(j) == \E i \in DOMAIN Commands(j) : pc[j] = Commands(j)[i]

Index(j, c) == CHOOSE i \in DOMAIN Commands(j) : Commands(j)[i] = c

\* -------------------------------------------------------------------- tools
\* A read: its pair's name, which mate it is, whether it aligns to the
\* sample's filter database, and whether the trimmer has processed it.
Read(id, mate, maps) == [id |-> id, mate |-> mate, maps |-> maps, trimmed |-> FALSE]

\* The raw reads of a sample: pair 2 (forward mate aligns), then pair 1
\* (neither mate aligns).
RawReads(s, m) == <<Read(2, m, m = 1), Read(1, m, FALSE)>>

\* atropos: every read of the file, trimmed.
atropos(reads) == [i \in DOMAIN reads |-> [reads[i] EXCEPT !.trimmed = TRUE]]

\* bowtie2 -1 fwd -2 rev: two SAM records per pair, the forward mate's first.
\* FLAG: 1 paired, 4 read unmapped, 8 mate unmapped, 64 first, 128 second.
SamFlag(self, mate) ==
    1 + (IF self.maps THEN 0 ELSE 4) + (IF mate.maps THEN 0 ELSE 8)
      + (IF self.mate = 1 THEN 64 ELSE 128)

SamRecord(self, mate) ==
    [name |-> self.id, flag |-> SamFlag(self, mate), fmt |-> "sam", read |-> self]

bowtie2(fwd, rev) ==
    [k \in 1 .. 2 * Len(fwd) |->
        IF k % 2 = 1 THEN SamRecord(fwd[(k + 1) \div 2], rev[(k + 1) \div 2])
        ELSE SamRecord(rev[k \div 2], fwd[k \div 2])]

FlagBits == {1, 2, 4, 8, 16, 32, 64, 128, 256, 512, 1024, 2048}

Bit(n, b) == (n \div b) % 2 = 1

\* samtools view -f 12 -F 256
view_f == 12
view_F == 256

\* Mutant: samtools view without -f 12.
view_keeps_without_f(flag) == \A b \in FlagBits : Bit(view_F, b) => ~Bit(flag, b)

view_keeps(flag) ==
    /\ \A b \in FlagBits : Bit(view_f, b) => Bit(flag, b)
    /\ \A b \in FlagBits : Bit(view_F, b) => ~Bit(flag, b)

KeepsRecord(r) == view_keeps(r.flag)

samtools_view(recs) == SelectSeq(recs, KeepsRecord)

\* samtools sort -n: by read name, the first mate of a name before the second.
NameBefore(a, b) ==
    \/ a.name < b.name
    \/ a.name = b.name /\ Bit(a.flag, 64) /\ ~Bit(b.flag, 64)

RECURSIVE Insert(_, _)
Insert(r, sorted) ==
    IF sorted = <<>> THEN <<r>>
    ELSE IF NameBefore(sorted[1], r) THEN <<sorted[1]>> \o Insert(r, Tail(sorted))
    ELSE <<r>> \o sorted

RECURSIVE samtools_sort(_)
samtools_sort(recs) ==
    IF recs = <<>> THEN <<>> ELSE Insert(recs[1], samtools_sort(Tail(recs)))

\* samtools view -bS: the same records, as BAM.
samtools_view_bS(recs) == [i \in DOMAIN recs |-> [recs[i] EXCEPT !.fmt = "bam"]]

\* bedtools bamtofastq -fq -fq2: two adjacent BAM records of one name are a
\* pair (first mate to -fq, second to -fq2); a record whose mate is not next
\* to it is skipped.  The result is <<reads of -fq, reads of -fq2>>.
RECURSIVE bamtofastq(_)
bamtofastq(recs) ==
    IF Len(recs) < 2 THEN <<<<>>, <<>>>>
    ELSE IF recs[1].name = recs[2].name /\ recs[1].fmt = "bam" /\ recs[2].fmt = "bam"
    THEN LET rest == bamtofastq(SubSeq(recs, 3, Len(recs)))
             a == IF Bit(recs[1].flag, 64) THEN recs[1] ELSE recs[2]
             b == IF Bit(recs[1].flag, 64) THEN recs[2] ELSE recs[1]
         IN  <<<<a.read>> \o rest[1], <<b.read>> \o rest[2]>>
    ELSE bamtofastq(Tail(recs))

\* bowtie2 | samtools view -f 12 -F 256 | samtools sort -n | samtools view -bS
\*   | bedtools bamtofastq
bowtie2_pipe(fwd, rev) ==
    bamtofastq(samtools_view_bS(samtools_sort(samtools_view(bowtie2(fwd, rev)))))

\* pigz -c: the same reads, gzip-compressed.
pigz(c) == File("fastq.gz", c.reads)

\* ----------------------------------------------------------- run blocks
basename(p) == p.file

\* Mutant: atropos writes -o and -p at the output paths themselves.
atropos_o_final(s, m, d) == abspath(qc_atropos_output(s, m))

\* qc_atropos: -o {temp_dir}/{f_fp} and -p {temp_dir}/{r_fp}.
atropos_o(s, m, d) == InTemp(d, basename(qc_atropos_output(s, m)))

\* Mutant: the link target is input.forward as written, without abspath.
filter_fp_relative(s, m) == qc_filter_input(s, m)

\* qc_filter, no database: f_fp and r_fp, the targets of the links.
filter_fp(s, m) == abspath(qc_filter_input(s, m))

\* qc_filter, with a database: the files of temp_dir.
filter_fastq(d, m) ==
    InTemp(d, IF m = 1 THEN "R1.trimmed.filtered.fastq" ELSE "R2.trimmed.filtered.fastq")

filter_gz(d, m) ==
    InTemp(d, IF m = 1 THEN "R1.trimmed.filtered.fastq.gz" ELSE "R2.trimmed.filtered.fastq.gz")

MateOf(c) == IF c \in {"scp_forward", "ln_forward", "pigz_forward"} THEN 1 ELSE 2

\* The files command c of job j writes; d is the job's temp_dir.
Writes(j, c, d) ==
    LET s == j[2] m == MateOf(c) IN
    CASE j[1] = "qc_atropos" /\ c = "atropos" ->
            {atropos_o(s, 1, d), atropos_o(s, 2, d), abspath(qc_atropos_log(s))}
      [] j[1] = "qc_atropos" /\ c # "atropos" -> {abspath(qc_atropos_output(s, m))}
      [] j[1] = "qc_filter" /\ c \in {"ln_forward", "ln_reverse"} ->
            {abspath(qc_filter_output(s, m))}
      [] j[1] = "qc_filter" /\ c = "echo" ->
            {abspath(qc_filter_log_bowtie(s)), abspath(qc_filter_log_other(s))}
      [] j[1] = "qc_filter" /\ c = "bowtie2_pipe" ->
            {filter_fastq(d, 1), filter_fastq(d, 2),
             abspath(qc_filter_log_bowtie(s)), abspath(qc_filter_log_other(s))}
      [] j[1] = "qc_filter" /\ c \in {"pigz_forward", "pigz_reverse"} -> {filter_gz(d, m)}
      [] j[1] = "qc_filter" /\ c \in {"scp_forward", "scp_reverse"} ->
            {abspath(qc_filter_output(s, m))}
      [] j[1] = "qc_per_sample_fastqc" ->
            {abspath(FastqcFile(s, x, e)) : x \in {1, 2}, e \in {"html", "zip"}}
            \cup {abspath(qc_per_sample_fastqc_log(s))}
      [] j[1] = "qc_per_sample_multiqc" ->
            {abspath(qc_per_sample_multiqc_output), abspath(qc_per_sample_multiqc_log)}
      [] OTHER -> {}

\* The files the command names as its inputs (as written on its command line).
Sources(j, c, d) ==
    LET s == j[2] m == MateOf(c) IN
    CASE j[1] = "qc_atropos" /\ c = "atropos" -> {raw(s, 1), raw(s, 2)}
      [] j[1] = "qc_atropos" /\ c # "atropos" -> {atropos_o(s, m, d)}
      [] j[1] = "qc_filter" /\ c = "bowtie2_pipe" ->
            {qc_filter_input(s, 1), qc_filter_input(s, 2)}
      [] j[1] = "qc_filter" /\ c \in {"pigz_forward", "pigz_reverse"} -> {filter_fastq(d, m)}
      [] j[1] = "qc_filter" /\ c \in {"scp_forward", "scp_reverse"} -> {filter_gz(d, m)}
      [] j[1] = "qc_per_sample_fastqc" ->
            {qc_per_sample_fastqc_input(s, 1), qc_per_sample_fastqc_input(s, 2)}
      [] OTHER -> {}

\* The files the command reads: its sources, through symbolic links; multiqc
\* reads whatever is in {qc_dir}/*/fastqc_per_sample and {qc_dir}/logs.
Reads(f, j, c, d) ==
    IF j[1] = "qc_per_sample_multiqc"
    THEN {p \in Paths : p.dir \in {"fastqc_per_sample", "logs"}}
    ELSE {abspath(p) : p \in Sources(j, c, d)} \cup {Follow(f, p) : p \in Sources(j, c, d)}

\* The files a command opens for writing when it starts: present and
\* incomplete until it has written them.  ln creates its link in one step.
Opens(j, c, d) == IF c \in {"ln_forward", "ln_reverse"} THEN {} ELSE Writes(j, c, d)

\* Whether the command can exit 0: its sources exist; ln (without -f)
\* refuses a destination that exists; bowtie2 needs as many reverse reads as
\* forward reads.
CanRun(f, j, c, d) ==
    /\ \A p \in Sources(j, c, d) : Exists(f, p)
    /\ c \in {"ln_forward", "ln_reverse"} =>
            Lookup(f, qc_filter_output(j[2], MateOf(c))).kind = "absent"
    /\ c = "bowtie2_pipe" =>
            Len(Stat(f, qc_filter_input(j[2], 1)).reads) = Len(Stat(f, qc_filter_input(j[2], 2)).reads)

\* What the command has written when it exits 0.
Result(f, j, c, d) ==
    LET s == j[2]
        m == MateOf(c)
        piped == bowtie2_pipe(Stat(f, qc_filter_input(s, 1)).reads,
                              Stat(f, qc_filter_input(s, 2)).reads)
    IN
    [p \in Writes(j, c, d) |->
        CASE j[1] = "qc_atropos" /\ c = "atropos" ->
                IF p = atropos_o(s, 1, d) THEN File("fastq.gz", atropos(Stat(f, raw(s, 1)).reads))
                ELSE IF p = atropos_o(s, 2, d) THEN File("fastq.gz", atropos(Stat(f, raw(s, 2)).reads))
                ELSE File("txt", <<>>)
          [] j[1] = "qc_atropos" /\ c # "atropos" -> Stat(f, atropos_o(s, m, d))
          [] j[1] = "qc_filter" /\ c \in {"ln_forward", "ln_reverse"} -> Link(filter_fp(s, m))
          [] j[1] = "qc_filter" /\ c = "echo" -> File("txt", <<>>)
          [] j[1] = "qc_filter" /\ c = "bowtie2_pipe" ->
                IF p = filter_fastq(d, 1) THEN File("fastq", piped[1])
                ELSE IF p = filter_fastq(d, 2) THEN File("fastq", piped[2])
                ELSE File("txt", <<>>)
          [] j[1] = "qc_filter" /\ c \in {"pigz_forward", "pigz_reverse"} ->
                pigz(Stat(f, filter_fastq(d, m)))
          [] j[1] = "qc_filter" /\ c \in {"scp_forward", "scp_reverse"} ->
                Stat(f, filter_gz(d, m))
          [] j[1] = "qc_per_sample_fastqc" ->
                IF p.file = basename(qc_per_sample_fastqc_log(s)) THEN File("txt", <<>>)
                ELSE IF p \in {abspath(FastqcFile(s, x, "html")) : x \in {1, 2}}
                THEN File("html", <<>>) ELSE File("zip", <<>>)
          [] j[1] = "qc_per_sample_multiqc" ->
                IF p = abspath(qc_per_sample_multiqc_output) THEN File("html", <<>>)
                ELSE File("txt", <<>>)
          [] OTHER -> Absent]

\* ------------------------------------------------------------------ actions
\* The declared inputs are made: a file some rule produces, once the job
\* producing it is done; any other file, once it exists.
InputsMade(F) ==
    \A p \in F :
        IF \E k \in Jobs : p \in Output(k)
        THEN \A k \in Jobs : p \in Output(k) => pc[k] = "done"
        ELSE Exists(fs, p)

\* tempfile.TemporaryDirectory(dir=...): a directory is made under a name
\* that does not exist yet.
mkdtemp(existing) == ScratchNames \ existing

\* Mutant: the script runs without errexit, so the next command runs.
AfterFail_continue(j, c) ==
    IF Index(j, c) < Len(Commands(j)) THEN Commands(j)[Index(j, c) + 1]
    ELSE IF UsesTemp(j) THEN "exit" ELSE "done"

\* shell(): the script runs with errexit and pipefail, so a command's
\* non-zero exit ends the script and raises; within the with block the
\* exception first leaves the block.
AfterFail(j, c) == IF UsesTemp(j) THEN "exit" ELSE "failed"

\* Mutant: the directory is removed only when the block ends normally.
exit_removes_on_success(e) == e = "none"

\* TemporaryDirectory.__exit__ removes the directory, whether or not an
\* exception is leaving the block.
exit_removes(e) == TRUE

\* A command can exit non-zero for reasons of its own; ln and echo do so
\* only when CanRun says they must.
Faulty(c) == c \notin {"ln_forward", "ln_reverse", "echo"}

Opened(f, j, c, d) == Put(f, [p \in Opens(j, c, d) |-> Partial])

Start(j) ==
    /\ j[1] # "qc"
    /\ pc[j] = "idle"
    /\ InputsMade(Input(j))
    /\ \E d \in (IF UsesTemp(j) THEN mkdtemp(dirs) ELSE {0}) :
        /\ tmp' = [tmp EXCEPT ![j] = d]
        /\ dirs' = IF UsesTemp(j) THEN dirs \cup {d} ELSE dirs
        /\ fs' = Opened(fs, j, Commands(j)[1], d)
    /\ pc' = [pc EXCEPT ![j] = Commands(j)[1]]
    /\ UNCHANGED <<err, reran, snap>>

\* The command in progress exits 0; the next command of the script starts.
Finish(j) ==
    /\ Running(j)
    /\ CanRun(fs, j, pc[j], tmp[j])
    /\ LET c == pc[j]
           i == Index(j, c)
           done == Put(fs, Result(fs, j, c, tmp[j]))
       IN  IF i = Len(Commands(j))
           THEN /\ fs' = done
                /\ pc' = [pc EXCEPT ![j] = IF UsesTemp(j) THEN "exit" ELSE "done"]
           ELSE /\ fs' = Opened(done, j, Commands(j)[i + 1], tmp[j])
                /\ pc' = [pc EXCEPT ![j] = Commands(j)[i + 1]]
    /\ UNCHANGED <<dirs, tmp, err, reran, snap>>

\* The command in progress exits non-zero.
Fail(j) ==
    /\ Running(j)
    /\ Faulty(pc[j]) \/ ~CanRun(fs, j, pc[j], tmp[j])
    /\ err' = [err EXCEPT ![j] = pc[j]]
    /\ pc' = [pc EXCEPT ![j] = AfterFail(j, pc[j])]
    /\ UNCHANGED <<fs, dirs, tmp, reran, snap>>

\* The with block is left, normally or by the exception.
Exit(j) ==
    /\ pc[j] = "exit"
    /\ IF exit_removes(err[j])
       THEN /\ dirs' = dirs \ {tmp[j]}
            /\ fs' = [p \in Paths |->
                        IF p.dir = "tmp" /\ p.s = tmp[j] THEN Absent ELSE fs[p]]
       ELSE UNCHANGED <<dirs, fs>>
    /\ tmp' = [tmp EXCEPT ![j] = 0]
    /\ pc' = [pc EXCEPT ![j] = IF err[j] = "none" THEN "done" ELSE "failed"]
    /\ UNCHANGED <<err, reran, snap>>

\* rule qc has inputs only: it is done once they are made.
Target ==
    /\ pc[<<"qc", 0>>] = "idle"
    /\ InputsMade(Input(<<"qc", 0>>))
    /\ pc' = [pc EXCEPT ![<<"qc", 0>>] = "done"]
    /\ UNCHANGED <<fs, dirs, tmp, err, reran, snap>>

\* A job is run again after the whole workflow is done, with its outputs
\* in place; snap remembers the files as they were.
Rerun(j) ==
    /\ j[1] # "qc"
    /\ \A k \in Jobs : pc[k] = "done"
    /\ pc' = [pc EXCEPT ![j] = "idle"]
    /\ reran' = [k \in Jobs |-> k = j]
    /\ snap' = fs
    /\ UNCHANGED <<fs, dirs, tmp, err>>

RawFiles(contents) ==
    [p \in Paths |->
        IF p.dir = "raw" THEN File("fastq.gz", contents[p.s][IF p.file = basename(raw(p.s, 1)) THEN 1 ELSE 2])
        ELSE Absent]

Init ==
    /\ fs = RawFiles([s \in samples |-> <<RawReads(s, 1), RawReads(s, 2)>>])
    /\ dirs = {}
    /\ pc = [j \in Jobs |-> "idle"]
    /\ tmp = [j \in Jobs |-> 0]
    /\ err = [j \in Jobs |-> "none"]
    /\ reran = [j \in Jobs |-> FALSE]
    /\ snap = fs

Next ==
    \/ \E j \in Jobs : Start(j)
    \/ \E j \in Jobs : Finish(j)
    \/ \E j \in Jobs : Fail(j)
    \/ \E j \in Jobs : Exit(j)
    \/ Target

Spec == Init /\ [][Next]_vars

NextRerun ==
    \/ Next
    \/ \E j \in Jobs : Rerun(j)

SpecRerun == Init /\ [][NextRerun]_vars

\* ------------------------------------------------- the filter on any input
\* The state after every qc_atropos job is done, where the samples that
\* have a filter database hold any read pairs: up to MaxPairs pairs of
\* distinct names, in any order, each mate aligning to the database or not.
PairRec == [id : 1 .. MaxPairs, m1 : BOOLEAN, m2 : BOOLEAN]

PairSeqs ==
    {q \in UNION {[1 .. n -> PairRec] : n \in 0 .. MaxPairs} :
        \A a, b \in DOMAIN q : a # b => q[a].id # q[b].id}

ReadsOf(q, m) == [i \in DOMAIN q |-> Read(q[i].id, m, IF m = 1 THEN q[i].m1 ELSE q[i].m2)]

Trimmed(f) ==
    Put(f, [p \in {abspath(qc_atropos_output(s, m)) : s \in samples, m \in {1, 2}}
                  \cup {abspath(qc_atropos_log(s)) : s \in samples} |->
              IF p.dir = "logs" THEN File("txt", <<>>)
              ELSE File("fastq.gz",
                        atropos(f[abspath(raw(p.s, IF p = abspath(qc_atropos_output(p.s, 1))
                                                   THEN 1 ELSE 2))].reads))])

InitFilter ==
    /\ \E q \in PairSeqs :
         fs = Trimmed(RawFiles([s \in samples |->
                 IF filter_db(s) = "None" THEN <<RawReads(s, 1), RawReads(s, 2)>>
                 ELSE <<ReadsOf(q, 1), ReadsOf(q, 2)>>]))
    /\ dirs = {}
    /\ pc = [j \in Jobs |-> IF j[1] = "qc_atropos" THEN "done" ELSE "idle"]
    /\ tmp = [j \in Jobs |-> 0]
    /\ err = [j \in Jobs |-> "none"]
    /\ reran = [j \in Jobs |-> FALSE]
    /\ snap = fs

FilterJobs == {j \in Jobs : j[1] = "qc_filter" /\ filter_db(j[2]) # "None"}

NextFilter ==
    \/ \E j \in FilterJobs : Start(j)
    \/ \E j \in FilterJobs : Finish(j)
    \/ \E j \in FilterJobs : Fail(j)
    \/ \E j \in FilterJobs : Exit(j)

SpecFilter == InitFilter /\ [][NextFilter]_vars

\* ------------------------------------------------------------------- claims
multiqc == <<"qc_per_sample_multiqc", 0>>

\* The file exists at the path (through a link) and is fully written.
Whole(f, p) == Stat(f, p).kind = "file" /\ Stat(f, p).complete

Ended(j) == pc[j] \in {"done", "failed"}

\* C1: the aggregate report job has not started, and multiqc_report.html does
\* not exist, unless both per-sample report outputs of every sample exist.
C1_AggregateAfterEveryReport ==
    (pc[multiqc] # "idle" \/ Lookup(fs, qc_per_sample_multiqc_output).kind # "absent")
        => \A s \in samples : \A p \in qc_per_sample_fastqc_output(s) : Whole(fs, p)

C1_Witness ==
    /\ pc[multiqc] = "multiqc"
    /\ Lookup(fs, qc_per_sample_multiqc_output).kind # "absent"

\* C2: for every sample, the filter job has not started unless both trimmed
\* files exist, and the per-sample report job has not started unless both
\* filtered files exist.
C2_StageOrder ==
    \A s \in samples :
        /\ pc[<<"qc_filter", s>>] # "idle" =>
                \A m \in {1, 2} : Whole(fs, qc_atropos_output(s, m))
        /\ pc[<<"qc_per_sample_fastqc", s>>] # "idle" =>
                \A m \in {1, 2} : Whole(fs, qc_filter_output(s, m))

\* Two samples at different stages: one sample's report is being made while
\* another sample has not been trimmed yet.
C2_Witness ==
    \E s, u \in samples :
        /\ s # u
        /\ pc[<<"qc_per_sample_fastqc", s>>] = "fastqc"
        /\ pc[<<"qc_atropos", u>>] = "idle"

\* C3 as stated: a file present at a declared output path of any job is fully
\* written, in every state.
C3_NoPartialAtFinalPath ==
    \A j \in Jobs : \A p \in Output(j) :
        Lookup(fs, p).kind # "absent" => Stat(fs, p).complete

\* C3 amended: for the jobs that stage in temp_dir (qc_atropos, and qc_filter
\* with a database), a file is at an output path only once every tool of the
\* job has exited 0 and the copy of that file has started, and it is
\* incomplete only while that copy runs or after that copy failed.
C3_StagedUntilToolsSucceed ==
    \A j \in Jobs : UsesTemp(j) =>
        \A c \in {"scp_forward", "scp_reverse"} :
            LET p == CHOOSE q \in Writes(j, c, 0) : TRUE
                i == Index(j, c)
                copied == \/ Running(j) /\ Index(j, pc[j]) >= i
                          \/ ~Running(j) /\ pc[j] # "idle" /\ err[j] = "none"
                          \/ ~Running(j) /\ err[j] # "none" /\ Index(j, err[j]) >= i
            IN  /\ Lookup(fs, p).kind # "absent" => copied
                /\ Lookup(fs, p).kind # "absent" /\ ~Lookup(fs, p).complete =>
                        pc[j] = c \/ err[j] = c

\* A tool of a staging job has failed, for a trim job and for a filter job.
C3_Witness ==
    /\ \E j \in Jobs : j[1] = "qc_atropos" /\ pc[j] = "failed" /\ err[j] = "atropos"
    /\ \E j \in Jobs : j[1] = "qc_filter" /\ pc[j] = "failed" /\ err[j] = "pigz_reverse"

\* C4: for a sample without a filter database the filter job does not fail,
\* and once it is done each filter output is a link through which exactly the
\* sample's trimmed file of the same mate is read.
C4_PassThrough ==
    \A s \in samples : filter_db(s) = "None" =>
        /\ pc[<<"qc_filter", s>>] # "failed"
        /\ pc[<<"qc_filter", s>>] = "done" =>
              \A m \in {1, 2} :
                  /\ Lookup(fs, qc_filter_output(s, m)).kind = "link"
                  /\ Whole(fs, qc_atropos_output(s, m))
                  /\ Stat(fs, qc_filter_output(s, m)) = Stat(fs, qc_atropos_output(s, m))

C4_Witness ==
    \E s \in samples : filter_db(s) = "None" /\ pc[<<"qc_filter", s>>] = "done"

\* C5: for a sample with a filter database, once the filter job is done the
\* pairs of its output are exactly the trimmed pairs neither mate of which
\* aligned: as many as there are such pairs, each of them present, and no
\* other.
C5_UnmappedPairs ==
    \A j \in FilterJobs : pc[j] = "done" =>
        LET tf == Stat(fs, qc_atropos_output(j[2], 1)).reads
            tr == Stat(fs, qc_atropos_output(j[2], 2)).reads
            ff == Stat(fs, qc_filter_output(j[2], 1)).reads
            fr == Stat(fs, qc_filter_output(j[2], 2)).reads
            neither == {i \in DOMAIN tf : ~tf[i].maps /\ ~tr[i].maps}
        IN  /\ Whole(fs, qc_filter_output(j[2], 1)) /\ Whole(fs, qc_filter_output(j[2], 2))
            /\ Len(ff) = Cardinality(neither)
            /\ Len(fr) = Cardinality(neither)
            /\ \A k \in DOMAIN ff : \E i \in neither : ff[k] = tf[i] /\ fr[k] = tr[i]
            /\ \A i \in neither : \E k \in DOMAIN ff : ff[k] = tf[i] /\ fr[k] = tr[i]

\* A filter job is done that kept two pairs and dropped one of three.
C5_Witness ==
    \E j \in FilterJobs :
        /\ pc[j] = "done"
        /\ Len(Stat(fs, qc_atropos_output(j[2], 1)).reads) = 3
        /\ Len(Stat(fs, qc_filter_output(j[2], 1)).reads) = 2

\* C6: rule qc is done only when the trim, filter and per-sample report jobs
\* of every sample are done and the aggregate report exists.
C6_TargetAfterEverything ==
    pc[<<"qc", 0>>] = "done" =>
        /\ \A s \in samples :
              \A r \in {"qc_atropos", "qc_filter", "qc_per_sample_fastqc"} : pc[<<r, s>>] = "done"
        /\ Whole(fs, qc_per_sample_multiqc_output)

C6_Witness == pc[<<"qc", 0>>] = "done" /\ dirs = {}

\* C7 as stated: every job that is running has a scratch directory of its
\* own, and no scratch directory remains of a job that has ended.
C7_EveryJobHasScratch ==
    /\ \A j \in Jobs : Running(j) => tmp[j] \in dirs
    /\ \A j, k \in Jobs : j # k /\ Running(j) /\ Running(k) => tmp[j] # tmp[k]
    /\ dirs = {tmp[j] : j \in {k \in Jobs : Running(k) \/ pc[k] = "exit"}}

\* C7 amended: every running qc_atropos job and every running qc_filter job
\* with a database has a scratch directory of its own; the other jobs have
\* none; the scratch directories and scratch files that exist are those of
\* jobs that have not left their with block, so none remains of a job that
\* has ended in success or in failure.
C7_ScratchPrivateAndRemoved ==
    /\ \A j \in Jobs : Running(j) /\ UsesTemp(j) => tmp[j] \in dirs
    /\ \A j \in Jobs : ~UsesTemp(j) \/ Ended(j) \/ pc[j] = "idle" => tmp[j] = 0
    /\ \A j, k \in Jobs : j # k /\ tmp[j] # 0 /\ tmp[k] # 0 => tmp[j] # tmp[k]
    /\ dirs = {tmp[j] : j \in {k \in Jobs : UsesTemp(k) /\ (Running(k) \/ pc[k] = "exit")}}
    /\ \A p \in Paths : p.dir = "tmp" /\ fs[p].kind # "absent" => p.s \in dirs

\* A staging job has failed while another staging job is running.
C7_Witness ==
    \E j, k \in Jobs :
        /\ UsesTemp(j) /\ pc[j] = "failed"
        /\ UsesTemp(k) /\ Running(k)

\* C8: a job in which a command has exited non-zero is leaving its with block
\* or has failed: it runs no later command, has written nothing a later
\* command of its script writes, and is never done.
C8_FailureIsFatal ==
    \A j \in Jobs : err[j] # "none" =>
        /\ pc[j] \in {"exit", "failed"}
        /\ \A i \in DOMAIN Commands(j) : i > Index(j, err[j]) =>
              \A p \in Writes(j, Commands(j)[i], tmp[j]) :
                  p.dir \notin {"tmp", "logs"} => fs[p].kind = "absent"

\* A job has failed at a command that is not the last of its script.
C8_Witness ==
    \E j \in Jobs :
        /\ pc[j] = "failed"
        /\ Index(j, err[j]) < Len(Commands(j))

\* C9 as stated: a job run again with its outputs in place does not fail
\* unless one of its tools exits non-zero for a reason of its own, and once
\* it is done its output files are what they were before.
C9_RerunIdempotent ==
    \A j \in Jobs : reran[j] =>
        /\ pc[j] = "failed" => Faulty(err[j])
        /\ pc[j] = "done" => \A p \in Output(j) : Lookup(fs, p) = Lookup(snap, p)

\* C10: no file is being written by two running jobs, and no file a running
\* job reads is being written by another running job.
C10_NoSharedFile ==
    \A j, k \in Jobs : j # k /\ Running(j) /\ Running(k) =>
        /\ Writes(j, pc[j], tmp[j]) \cap Writes(k, pc[k], tmp[k]) = {}
        /\ Writes(j, pc[j], tmp[j]) \cap Reads(fs, k, pc[k], tmp[k]) = {}

\* Two jobs of different samples are running, one of them copying to its
\* final path.
C10_Witness ==
    \E j, k \in Jobs :
        /\ j[2] # k[2]
        /\ pc[j] = "scp_forward"
        /\ Running(k)

====
